---- MODULE Spec2Model ----
(***************************************************************************)
(* Model of data_process.py: six load_and_pivot calls, five left joins on  *)
(* (State, Sector), five derivation steps and one write of the output      *)
(* file.  The script runs top to bottom once; every statement group is one *)
(* action and pc is the position in the script.                            *)
(*                                                                         *)
(* Values.  A cell is NaN (the empty tuple) or <<v>> for a number v.       *)
(* Means, gaps and quantile edges are exact rationals <<n, d>> in lowest   *)
(* terms, d > 0 (pandas computes them in binary floating point; rounding   *)
(* is not modelled).  Category values and column names are sequences of    *)
(* tokens so that the column clean-up of line 29 is a real rewrite.        *)
(***************************************************************************)
EXTENDS Integers, Sequences, FiniteSets, TLC

VARIABLES
  pc,       \* the script's position: the next statement group, "done" or "failed"
  df,       \* the file the latest load_and_pivot call read
  tbl,      \* water, media, latrine, assets, migration, mobile
  merged,   \* the merged frame
  outfile,  \* final_sdg_water_data.csv: how often written, and its rows
  err,      \* the exception that ended the run, "" when none
  console,  \* what was printed
  log       \* the statement groups that completed, in order

vars == <<pc, df, tbl, merged, outfile, err, console, log>>

(***************************************************************************)
(* Options and rationals                                                   *)
(***************************************************************************)
NaN == <<>>

Some(v) == <<v>>

IsNaN(x) == x = NaN

RECURSIVE GCD(_, _)
GCD(a, b) == IF b = 0 THEN a ELSE GCD(b, a % b)

Abs(a) == IF a < 0 THEN 0 - a ELSE a

\* the rational n/d (d # 0) in lowest terms with a positive denominator
Rat(n, d) ==
  LET g == GCD(Abs(n), Abs(d))
      s == IF d < 0 THEN 0 - 1 ELSE 1
  IN  <<(s * n) \div g, (s * d) \div g>>

RAdd(p, q) == Rat(p[1] * q[2] + q[1] * p[2], p[2] * q[2])

RSub(p, q) == Rat(p[1] * q[2] - q[1] * p[2], p[2] * q[2])

RMul(p, q) == Rat(p[1] * q[1], p[2] * q[2])

RLess(p, q) == p[1] * q[2] < q[1] * p[2]

RLeq(p, q) == p[1] * q[2] <= q[1] * p[2]

RECURSIVE SumSeq(_)
SumSeq(s) == IF s = <<>> THEN 0 ELSE Head(s) + SumSeq(Tail(s))

\* Series.mean(): the mean of the non-null numbers of s, NaN when there is none
Mean(s) ==
  LET present == SelectSeq(s, LAMBDA x : ~IsNaN(x))
      nums    == [i \in DOMAIN present |-> present[i][1]]
  IN  IF present = <<>> THEN NaN ELSE Some(Rat(SumSeq(nums), Len(nums)))

(***************************************************************************)
(* Names and ordering                                                      *)
(***************************************************************************)
\* pandas sorts group keys; the strings of the model in their lexical order
StrOrd ==
  [s \in {"A", "B", "C", "D", "E", "Rural", "Total", "Urban", "Z"} |->
     CASE s = "A" -> 1 [] s = "B" -> 2 [] s = "C" -> 3 [] s = "D" -> 4
       [] s = "E" -> 5 [] s = "Rural" -> 6 [] s = "Total" -> 7
       [] s = "Urban" -> 8 [] s = "Z" -> 9]

RECURSIVE LexLess(_, _)
LexLess(k1, k2) ==
  IF k1 = <<>> \/ k2 = <<>> THEN k1 = <<>> /\ k2 # <<>>
  ELSE IF Head(k1) = Head(k2) THEN LexLess(Tail(k1), Tail(k2))
  ELSE StrOrd[Head(k1)] < StrOrd[Head(k2)]

RECURSIVE SortKeys(_)
SortKeys(S) ==
  IF S = {} THEN <<>>
  ELSE LET m == CHOOSE x \in S : \A y \in S : x = y \/ LexLess(x, y)
       IN  <<m>> \o SortKeys(S \ {m})

\* str(col).replace(" ", "_").replace("/", "_")
CleanName(col) ==
  [i \in DOMAIN col |-> IF col[i] \in {" ", "/"} THEN "_" ELSE col[i]]

(***************************************************************************)
(* load_and_pivot                                                          *)
(***************************************************************************)
NoTable == [kind |-> "None", columns |-> {}, rows |-> <<>>]

Unset == [kind |-> "unset", columns |-> {}, rows |-> <<>>]

NoFile(d) == [path |-> d, exists |-> FALSE, columns |-> {}, rows |-> <<>>]

\* the first column of cols (in order) that the frame lacks, "" when none
RECURSIVE FirstMissing(_, _)
FirstMissing(cols, have) ==
  IF cols = <<>> THEN ""
  ELSE IF Head(cols) \notin have THEN Head(cols)
  ELSE FirstMissing(Tail(cols), have)

KeyOf(row, index_cols) == [i \in DOMAIN index_cols |-> row[index_cols[i]]]

\* FirstValue with the first row of the group taken, null or not
FirstValueAnyRow(rows, index_cols, pivot_col, value_col, key, cat) ==
  LET grp == SelectSeq(rows, LAMBDA r : KeyOf(r, index_cols) = key
                                         /\ r[pivot_col] = cat)
  IN  IF grp = <<>> THEN NaN ELSE Head(grp)[value_col]

\* GroupBy.first(): the first non-null value of the group, NaN when all are null
FirstValue(rows, index_cols, pivot_col, value_col, key, cat) ==
  LET grp == SelectSeq(rows, LAMBDA r : KeyOf(r, index_cols) = key
                                         /\ r[pivot_col] = cat
                                         /\ ~IsNaN(r[value_col]))
  IN  IF grp = <<>> THEN NaN ELSE Head(grp)[value_col]

\* pivot_table with the groups of a null aggregate kept (dropna=False)
pivot_table_keep_null(rows, index_cols, pivot_col, value_col) ==
  LET keys == {KeyOf(rows[i], index_cols) : i \in DOMAIN rows}
      cats == {rows[i][pivot_col] : i \in DOMAIN rows}
      ks   == SortKeys(keys)
  IN  [columns |-> cats,
       rows    |-> [i \in DOMAIN ks |->
                      [key   |-> ks[i],
                       cells |-> [c \in cats |->
                                    FirstValue(rows, index_cols, pivot_col,
                                               value_col, ks[i], c)]]]]

\* df.pivot_table(index, columns, values, aggfunc='first'): groups with a null
\* aggregate are dropped, the rest unstacked into one row per key, keys sorted
\* (a frame without any valued row pivots to a frame without rows or columns)
pivot_table(rows, index_cols, pivot_col, value_col) ==
  LET live == {i \in DOMAIN rows : ~IsNaN(rows[i][value_col])}
      keys == {KeyOf(rows[i], index_cols) : i \in live}
      cats == {rows[i][pivot_col] : i \in live}
      ks   == SortKeys(keys)
  IN  [columns |-> cats,
       rows    |-> [i \in DOMAIN ks |->
                      [key   |-> ks[i],
                       cells |-> [c \in cats |->
                                    FirstValue(rows, index_cols, pivot_col,
                                               value_col, ks[i], c)]]]]

\* .reset_index() fails when a level name is already a column of the frame
ResetIndexFails(table, index_cols) ==
  \E i \in DOMAIN index_cols : <<index_cols[i]>> \in table.columns

\* lines 28-29: the frame with its columns renamed
CleanColumns(table) ==
  [kind    |-> "table",
   columns |-> {CleanName(c) : c \in table.columns},
   rows    |-> [i \in DOMAIN table.rows |->
                  [State  |-> table.rows[i].key[1],
                   Sector |-> table.rows[i].key[2],
                   cells  |-> [n \in {CleanName(c) : c \in table.columns} |->
                                 LET src == CHOOSE c \in table.columns : CleanName(c) = n
                                 IN  table.rows[i].cells[src]]]]]

\* load_and_pivot with the read and the column check inside the try block
load_and_pivot_catch_all(file, pivot_col, value_col, index_cols, special_handling) ==
  LET columns == IF special_handling = "migration" /\ "Gender" \in file.columns
                 THEN file.columns \ {"Gender"}
                 ELSE file.columns
  IN  IF ~file.exists
         \/ FirstMissing(<<pivot_col, value_col>> \o index_cols, columns) # ""
         \/ ResetIndexFails(pivot_table(file.rows, index_cols, pivot_col, value_col),
                            index_cols)
      THEN [outcome |-> "return", error |-> "", value |-> NoTable, printed |-> TRUE]
      ELSE [outcome |-> "return", error |-> "",
            value |-> CleanColumns(pivot_table(file.rows, index_cols, pivot_col, value_col)),
            printed |-> FALSE]

\* the call's outcome: a returned value (a frame or None) or a raised error
load_and_pivot(file, pivot_col, value_col, index_cols, special_handling) ==
  IF ~file.exists
  THEN [outcome |-> "raise", error |-> "FileNotFoundError", value |-> NoTable,
        printed |-> FALSE]
  ELSE
    LET columns == IF special_handling = "migration" /\ "Gender" \in file.columns
                   THEN file.columns \ {"Gender"}
                   ELSE file.columns
        missing == FirstMissing(<<pivot_col, value_col>> \o index_cols, columns)
    IN  IF missing # ""
        THEN [outcome |-> "raise", error |-> "ValueError", value |-> NoTable,
              printed |-> FALSE]
        ELSE
          LET table == pivot_table(file.rows, index_cols, pivot_col, value_col)
          IN  IF ResetIndexFails(table, index_cols)
              THEN [outcome |-> "return", error |-> "", value |-> NoTable,
                    printed |-> TRUE]
              ELSE [outcome |-> "return", error |-> "",
                    value |-> CleanColumns(table), printed |-> FALSE]

(***************************************************************************)
(* The script's configuration (lines 36-77)                                *)
(***************************************************************************)
Datasets == <<"water", "media", "latrine", "assets", "migration", "mobile">>

PivotCol ==
  [d \in {"water", "media", "latrine", "assets", "migration", "mobile"} |->
     CASE d = "water"     -> "Sub Indicator"
       [] d = "media"     -> "Internet Access"
       [] d = "latrine"   -> "Sub Indicator"
       [] d = "assets"    -> "Sub Indicator"
       [] d = "migration" -> "Main reason for Migration"
       [] d = "mobile"    -> "Indicator"]

ValueCol == "Value"

IndexCols == <<"State", "Sector">>

Special == [d \in DOMAIN PivotCol |-> IF d = "migration" THEN "migration" ELSE "None"]

\* the column the derivation steps read (lines 92, 99, 100, 107, 113)
TargetCol == <<"Improved", "_", "Source", "_", "of", "_", "Drinking", "_", "Water">>

Call(d, file) == load_and_pivot(file, PivotCol[d], ValueCol, IndexCols, Special[d])

(***************************************************************************)
(* Join (lines 80-84)                                                      *)
(***************************************************************************)
RECURSIVE Flatten(_)
Flatten(ss) == IF ss = <<>> THEN <<>> ELSE Head(ss) \o Flatten(Tail(ss))

\* merge with how="inner": a left row without a match is dropped
merge_inner(left, right) ==
  LET both  == left.columns \cap right.columns
      lname == [c \in left.columns |-> IF c \in both THEN c \o <<"_x">> ELSE c]
      rname == [c \in right.columns |-> IF c \in both THEN c \o <<"_y">> ELSE c]
      lcols == {lname[c] : c \in left.columns}
      rcols == {rname[c] : c \in right.columns}
      joined(l, r) ==
        [State  |-> l.State,
         Sector |-> l.Sector,
         cells  |-> [n \in lcols \cup rcols |->
                       IF n \in lcols
                       THEN l.cells[CHOOSE c \in left.columns : lname[c] = n]
                       ELSE r.cells[CHOOSE c \in right.columns : rname[c] = n]]]
      rowsFor(l) ==
        LET hits == SelectSeq(right.rows,
                              LAMBDA r : r.State = l.State /\ r.Sector = l.Sector)
        IN  [j \in DOMAIN hits |-> joined(l, hits[j])]
  IN  [kind    |-> "table",
       columns |-> lcols \cup rcols,
       rows    |-> Flatten([i \in DOMAIN left.rows |-> rowsFor(left.rows[i])])]

\* left.merge(right, on=["State", "Sector"], how="left"): every left row once per
\* matching right row, once with nulls when there is none; a column the two
\* frames share gets the suffixes _x (left) and _y (right)
\* (a suffixed name equal to a column already present does not occur in the files
\* modelled)
merge(left, right) ==
  LET both  == left.columns \cap right.columns
      lname == [c \in left.columns |-> IF c \in both THEN c \o <<"_x">> ELSE c]
      rname == [c \in right.columns |-> IF c \in both THEN c \o <<"_y">> ELSE c]
      lcols == {lname[c] : c \in left.columns}
      rcols == {rname[c] : c \in right.columns}
      joined(l, r, hit) ==
        [State  |-> l.State,
         Sector |-> l.Sector,
         cells  |-> [n \in lcols \cup rcols |->
                       IF n \in lcols
                       THEN l.cells[CHOOSE c \in left.columns : lname[c] = n]
                       ELSE IF hit
                       THEN r.cells[CHOOSE c \in right.columns : rname[c] = n]
                       ELSE NaN]]
      rowsFor(l) ==
        LET hits == SelectSeq(right.rows,
                              LAMBDA r : r.State = l.State /\ r.Sector = l.Sector)
        IN  IF hits = <<>> THEN <<joined(l, l, FALSE)>>
            ELSE [j \in DOMAIN hits |-> joined(l, hits[j], TRUE)]
  IN  [kind    |-> "table",
       columns |-> lcols \cup rcols,
       rows    |-> Flatten([i \in DOMAIN left.rows |-> rowsFor(left.rows[i])])]

RECURSIVE MergeAll(_, _)
MergeAll(acc, rest) ==
  IF rest = <<>> THEN acc ELSE MergeAll(merge(acc, Head(rest)), Tail(rest))

(***************************************************************************)
(* Derivation steps (lines 88-113)                                         *)
(***************************************************************************)
\* Series.map({"Rural": 0, "Urban": 1}): a label the dict lacks maps to NaN
EncodeLabel(label) ==
  IF label = "Rural" THEN Some(0) ELSE IF label = "Urban" THEN Some(1) ELSE NaN

EncodeSector(rows) ==
  [i \in DOMAIN rows |->
     [State |-> rows[i].State, Sector |-> EncodeLabel(rows[i].Sector),
      cells |-> rows[i].cells]]

Threshold == 90

\* the comparison written > instead of >=
AboveThreshold(v) == ~IsNaN(v) /\ v[1] > Threshold

\* merged[col] >= 90 is False on a null
AtLeastThreshold(v) == ~IsNaN(v) /\ v[1] >= Threshold

ComplianceFlag(rows) ==
  [i \in DOMAIN rows |->
     [State |-> rows[i].State, Sector |-> rows[i].Sector, cells |-> rows[i].cells,
      SDG_6_Status |-> IF AtLeastThreshold(rows[i].cells[TargetCol])
                       THEN "Met" ELSE "Not Met"]]

\* the groups of groupby("State"), in sorted key order
StatesOf(rows) == SortKeys({<<rows[i].State>> : i \in DOMAIN rows})

Group(rows, state) == SelectSeq(rows, LAMBDA r : r.State = state)

Column(rows) == [i \in DOMAIN rows |-> rows[i].cells[TargetCol]]

calculate_disparity(group) ==
  LET urban_mean == Mean(Column(SelectSeq(group, LAMBDA r : r.Sector = Some(1))))
      rural_mean == Mean(Column(SelectSeq(group, LAMBDA r : r.Sector = Some(0))))
  IN  IF IsNaN(urban_mean) \/ IsNaN(rural_mean) THEN NaN
      ELSE Some(RSub(urban_mean[1], rural_mean[1]))

\* groupby("State").apply(...).reset_index(level=0, drop=True): one gap per State,
\* relabelled 0, 1, 2, ... in State order
GapSeries(rows) ==
  LET ss == StatesOf(rows)
  IN  [g \in DOMAIN ss |-> calculate_disparity(Group(rows, ss[g][1]))]

\* merged["Urban_Rural_Gap"] = series: assignment aligns on the row label, so row
\* i (label i - 1) takes the series' entry of that label, NaN when it has none
UrbanRuralGap(rows) ==
  LET series == GapSeries(rows)
  IN  [i \in DOMAIN rows |->
         [State |-> rows[i].State, Sector |-> rows[i].Sector, cells |-> rows[i].cells,
          SDG_6_Status |-> rows[i].SDG_6_Status,
          Urban_Rural_Gap |-> IF i \in DOMAIN series THEN series[i] ELSE NaN]]

\* the rationals of s in ascending order
RECURSIVE SortRat(_)
SortRat(s) ==
  IF s = <<>> THEN <<>>
  ELSE LET i == CHOOSE i \in DOMAIN s : \A j \in DOMAIN s : RLeq(s[i], s[j])
       IN  <<s[i]>> \o SortRat([k \in 1..(Len(s) - 1) |-> IF k < i THEN s[k] ELSE s[k + 1]])

\* Series.quantile(k / n_bins), linear interpolation, over the sorted values xs
Quantile(xs, k, n_bins) ==
  LET h  == k * (Len(xs) - 1)
      lo == (h \div n_bins) + 1
      fr == h % n_bins
  IN  IF fr = 0 THEN xs[lo]
      ELSE RAdd(xs[lo], RMul(Rat(fr, n_bins), RSub(xs[lo + 1], xs[lo])))

\* the bin of v: edges[b] < v <= edges[b + 1], the lowest edge included in bin 1
BinOf(edges, v) ==
  IF v = edges[1] THEN 1
  ELSE CHOOSE b \in 1..(Len(edges) - 1) : RLess(edges[b], v) /\ RLeq(v, edges[b + 1])

\* pd.qcut(x, q, labels): the edges are the quantiles of the non-null values of
\* x; equal edges raise ValueError ("Bin edges must be unique"); a null stays null
qcut(x, n_bins, labels) ==
  LET present == SelectSeq(x, LAMBDA v : ~IsNaN(v))
      xs      == SortRat([i \in DOMAIN present |-> present[i][1]])
      edges   == [k \in 1..(n_bins + 1) |-> Quantile(xs, k - 1, n_bins)]
  IN  IF xs = <<>> \/ \E k \in 1..n_bins : edges[k] = edges[k + 1]
      THEN [ok |-> FALSE, values |-> <<>>]
      ELSE [ok |-> TRUE,
            values |-> [i \in DOMAIN x |->
                          IF IsNaN(x[i]) THEN "NaN" ELSE labels[BinOf(edges, x[i][1])]]]

q == 5

Labels == <<"Tier 1 (Urgent)", "Tier 2", "Tier 3", "Tier 4", "Tier 5 (Best)">>

\* groupby("State")[col].transform('mean'): on every row, its State's mean
StateMeans(rows) ==
  [i \in DOMAIN rows |-> Mean(Column(Group(rows, rows[i].State)))]

RankSeries(rows) == qcut(StateMeans(rows), q, Labels)

PriorityRank(rows) ==
  LET cut == RankSeries(rows)
  IN  [i \in DOMAIN rows |->
         [State |-> rows[i].State, Sector |-> rows[i].Sector, cells |-> rows[i].cells,
          SDG_6_Status |-> rows[i].SDG_6_Status,
          Urban_Rural_Gap |-> rows[i].Urban_Rural_Gap,
          Priority_Rank |-> cut.values[i]]]

\* dropna without subset: a null in any column drops the row
DropNaAnyColumn(rows) ==
  SelectSeq(rows, LAMBDA r : \A n \in DOMAIN r.cells : ~IsNaN(r.cells[n]))

\* merged.dropna(subset=[col])
DropNa(rows) == SelectSeq(rows, LAMBDA r : ~IsNaN(r.cells[TargetCol]))

(***************************************************************************)
(* Input files                                                             *)
(***************************************************************************)
ImprovedWater == <<"Improved", " ", "Source", " ", "of", " ", "Drinking", " ", "Water">>

PipedWater == <<"Piped", "/", "Tap", " ", "Water">>

FullColumns(d) == {"State", "Sector", PivotCol[d], ValueCol}

\* one long-form row of dataset d
Row(d, state, sector, cat, v) ==
  [c \in FullColumns(d) |->
     CASE c = "State" -> state [] c = "Sector" -> sector
       [] c = ValueCol -> v [] OTHER -> cat]

WithGender(row, g) ==
  [c \in DOMAIN row \cup {"Gender"} |-> IF c = "Gender" THEN g ELSE row[c]]

\* the CSV of dataset d holding rows, read with the header columns
File(d, columns, rows) ==
  [path |-> d, exists |-> TRUE, columns |-> columns,
   rows |-> [i \in DOMAIN rows |-> [c \in columns \cap DOMAIN rows[i] |-> rows[i][c]]]]

\* the rows of pool (a sequence) at the positions of pick, in pool order
RECURSIVE Pick(_, _, _)
Pick(pool, pick, i) ==
  IF i > Len(pool) THEN <<>>
  ELSE (IF i \in pick THEN <<pool[i]>> ELSE <<>>) \o Pick(pool, pick, i + 1)

MaxWaterRows == 4

WaterPool ==
  << Row("water", "A", "Rural", ImprovedWater, Some(60)),
     Row("water", "A", "Urban", ImprovedWater, Some(80)),
     Row("water", "B", "Rural", ImprovedWater, Some(89)),
     Row("water", "B", "Urban", ImprovedWater, Some(90)),
     Row("water", "C", "Rural", ImprovedWater, NaN),
     Row("water", "C", "Rural", PipedWater, Some(70)),
     Row("water", "C", "Total", ImprovedWater, Some(95)) >>

MediaPool ==
  << Row("media", "A", "Rural", <<"Yes">>, Some(40)),
     Row("media", "Z", "Rural", <<"Yes">>, Some(10)) >>

LatrinePool ==
  << Row("latrine", "A", "Urban", ImprovedWater, Some(55)),
     Row("latrine", "B", "Rural", <<"Improved", " ", "Latrine">>, Some(30)) >>

AssetsPool == << Row("assets", "B", "Rural", <<"Television">>, Some(1)) >>

MigrationPool ==
  << WithGender(Row("migration", "A", "Rural", <<"Work", "/", "Employment">>, Some(12)), "Male"),
     WithGender(Row("migration", "A", "Rural", <<"Work", "/", "Employment">>, Some(7)), "Female") >>

MobilePool ==
  << Row("mobile", "A", "Rural", <<"Uses", " ", "Mobile">>, Some(77)),
     Row("mobile", "B", "Rural", <<"State">>, Some(5)) >>

Subsets(pool, lo, hi) ==
  {pick \in SUBSET DOMAIN pool : Cardinality(pick) >= lo /\ Cardinality(pick) <= hi}

\* the files a run may find for dataset d
Files(d) ==
  CASE d = "water" ->
         {File(d, FullColumns(d), Pick(WaterPool, pick, 1)) :
            pick \in Subsets(WaterPool, 0, MaxWaterRows)}
    [] d = "media" ->
         {File(d, FullColumns(d), Pick(MediaPool, pick, 1)) : pick \in Subsets(MediaPool, 1, 2)}
           \cup {File(d, FullColumns(d) \ {PivotCol[d]}, MediaPool)}
    [] d = "latrine" ->
         {File(d, FullColumns(d), Pick(LatrinePool, pick, 1)) : pick \in Subsets(LatrinePool, 1, 2)}
    [] d = "assets" ->
         {File(d, FullColumns(d), AssetsPool), NoFile(d)}
    [] d = "migration" ->
         {File(d, FullColumns(d) \cup {"Gender"}, MigrationPool),
          File(d, FullColumns(d), <<MigrationPool[2]>>)}
    [] d = "mobile" ->
         {File(d, FullColumns(d), Pick(MobilePool, pick, 1)) : pick \in {{1}, {1, 2}}}

(***************************************************************************)
(* The run                                                                 *)
(***************************************************************************)
water == tbl["water"]

media == tbl["media"]

latrine == tbl["latrine"]

assets == tbl["assets"]

migration == tbl["migration"]

mobile == tbl["mobile"]

Init ==
  /\ pc = "water"
  /\ df = NoFile("")
  /\ tbl = [d \in DOMAIN PivotCol |-> Unset]
  /\ merged = Unset
  /\ outfile = [writes |-> 0, rows |-> <<>>]
  /\ err = ""
  /\ console = <<>>
  /\ log = <<>>

\* the run ends with an uncaught exception
Raise(e) ==
  /\ pc' = "failed"
  /\ err' = e

\* d = load_and_pivot(...) at position d of the script, then on to next
Load(d, next) ==
  /\ pc = d
  /\ \E file \in Files(d) :
       LET r == Call(d, file)
       IN  /\ df' = file
           /\ IF r.outcome = "raise"
              THEN /\ Raise(r.error)
                   /\ UNCHANGED <<tbl, console, log>>
              ELSE /\ pc' = next
                   /\ tbl' = [tbl EXCEPT ![d] = r.value]
                   /\ console' = IF r.printed THEN Append(console, "Error processing")
                                 ELSE console
                   /\ log' = Append(log, d)
                   /\ UNCHANGED err
  /\ UNCHANGED <<merged, outfile>>

LoadWater == Load("water", "media")

LoadMedia == Load("media", "latrine")

LoadLatrine == Load("latrine", "assets")

LoadAssets == Load("assets", "migration")

LoadMigration == Load("migration", "mobile")

LoadMobile == Load("mobile", "merge")

\* a join that takes None for an empty frame
MergeNeverFails == ""

\* lines 80-84: None has no merge method, and merge accepts no None
MergeError ==
  IF water.kind = "None" THEN "AttributeError"
  ELSE IF \E i \in 2..Len(Datasets) : tbl[Datasets[i]].kind = "None" THEN "TypeError"
  ELSE ""

Merge ==
  /\ pc = "merge"
  /\ IF MergeError # ""
     THEN /\ Raise(MergeError)
          /\ UNCHANGED <<merged, log>>
     ELSE /\ merged' = MergeAll(water, [i \in 1..(Len(Datasets) - 1) |-> tbl[Datasets[i + 1]]])
          /\ pc' = "encode"
          /\ log' = Append(log, "merge")
          /\ UNCHANGED err
  /\ UNCHANGED <<df, tbl, outfile, console>>

Step(here, next, rows) ==
  /\ pc = here
  /\ merged' = [merged EXCEPT !.rows = rows]
  /\ pc' = next
  /\ log' = Append(log, here)
  /\ UNCHANGED <<df, tbl, outfile, err, console>>

Fail(here, e) ==
  /\ pc = here
  /\ Raise(e)
  /\ UNCHANGED <<df, tbl, merged, outfile, console, log>>

\* line 88
Encode == Step("encode", "status", EncodeSector(merged.rows))

\* lines 91-95: merged[col] raises KeyError when the frame has no such column
Status ==
  /\ pc = "status"
  /\ IF TargetCol \in merged.columns
     THEN Step("status", "gap", ComplianceFlag(merged.rows))
     ELSE Fail("status", "KeyError")

\* lines 98-103
Gap == Step("gap", "rank", UrbanRuralGap(merged.rows))

\* lines 106-110
Rank ==
  /\ pc = "rank"
  /\ IF RankSeries(merged.rows).ok
     THEN Step("rank", "dropna", PriorityRank(merged.rows))
     ELSE Fail("rank", "ValueError")

\* line 113
Drop == Step("dropna", "write", DropNa(merged.rows))

\* lines 117-125: to_csv, then the console summary
Write ==
  /\ pc = "write"
  /\ outfile' = [writes |-> outfile.writes + 1, rows |-> merged.rows]
  /\ console' = console \o <<"saved", "Sample rows", "Key Statistics">>
  /\ pc' = "done"
  /\ log' = Append(log, "write")
  /\ UNCHANGED <<df, tbl, merged, err>>

Next ==
  \/ LoadWater \/ LoadMedia \/ LoadLatrine \/ LoadAssets \/ LoadMigration \/ LoadMobile
  \/ Merge \/ Encode \/ Status \/ Gap \/ Rank \/ Drop \/ Write

Spec == Init /\ [][Next]_vars

(***************************************************************************)
(* load_and_pivot on its own: one call on any small long-form file         *)
(***************************************************************************)
MaxRows == 3

PivotKeys == {<<"B", "Rural">>, <<"A", "Urban">>}

PivotCats == {ImprovedWater, PipedWater, <<"State">>}

PivotVals == {NaN, Some(60), Some(80)}

SeqsUpTo(S, n) == UNION {[1..m -> S] : m \in 0..n}

PivotRows(d) ==
  {IF d = "migration" THEN WithGender(Row(d, k[1], k[2], c, v), "Male")
   ELSE Row(d, k[1], k[2], c, v) :
     k \in PivotKeys, c \in PivotCats, v \in PivotVals}

HeaderOf(d) == IF d = "migration" THEN FullColumns(d) \cup {"Gender"} ELSE FullColumns(d)

\* every file of at most MaxRows rows with the full header, the files that lack
\* one column, and the missing file
PivotFiles(d) ==
  {File(d, HeaderOf(d), rows) : rows \in SeqsUpTo(PivotRows(d), MaxRows)}
    \cup {File(d, HeaderOf(d) \ {c}, rows) :
            c \in FullColumns(d), rows \in SeqsUpTo(PivotRows(d), 1)}
    \cup {NoFile(d)}

InitPivot ==
  /\ pc = "call"
  /\ df = NoFile("")
  /\ tbl = [d \in DOMAIN PivotCol |-> Unset]
  /\ merged = Unset
  /\ outfile = [writes |-> 0, rows |-> <<>>]
  /\ err = ""
  /\ console = <<>>
  /\ log = <<>>

\* one call of load_and_pivot with the arguments of lines 36-41 or 64-70
CallLoadAndPivot ==
  /\ pc = "call"
  /\ \E d \in {"water", "migration"} : \E file \in PivotFiles(d) :
       LET r == Call(d, file)
       IN  /\ df' = file
           /\ IF r.outcome = "raise"
              THEN /\ pc' = "raised"
                   /\ err' = r.error
                   /\ UNCHANGED <<tbl, console>>
              ELSE /\ pc' = "returned"
                   /\ tbl' = [tbl EXCEPT ![d] = r.value]
                   /\ console' = IF r.printed THEN Append(console, "Error processing")
                                 ELSE console
                   /\ UNCHANGED err
  /\ UNCHANGED <<merged, outfile, log>>

NextPivot == CallLoadAndPivot

SpecPivot == InitPivot /\ [][NextPivot]_vars

(***************************************************************************)
(* The priority rank on its own: the script at line 106, after a run over  *)
(* a water file of up to five States with primary values 10, 20, ..., 50   *)
(***************************************************************************)
RankStates == <<"A", "B", "C", "D", "E">>

\* State i absent (0), with a Rural row (1), or with a Rural and an Urban row (2),
\* every row of State i holding the value 10 * i
RankWaterFile(profile) ==
  File("water", FullColumns("water"),
       Flatten([i \in DOMAIN RankStates |->
                  IF profile[i] = 0 THEN <<>>
                  ELSE IF profile[i] = 1
                  THEN <<Row("water", RankStates[i], "Rural", ImprovedWater, Some(10 * i))>>
                  ELSE <<Row("water", RankStates[i], "Rural", ImprovedWater, Some(10 * i)),
                         Row("water", RankStates[i], "Urban", ImprovedWater, Some(10 * i))>>]))

DefaultFile(d) ==
  CASE d = "media"     -> File(d, FullColumns(d), MediaPool)
    [] d = "latrine"   -> File(d, FullColumns(d), <<LatrinePool[2]>>)
    [] d = "assets"    -> File(d, FullColumns(d), AssetsPool)
    [] d = "migration" -> File(d, FullColumns(d) \cup {"Gender"}, MigrationPool)
    [] d = "mobile"    -> File(d, FullColumns(d), <<MobilePool[1]>>)

FullOrder ==
  <<"water", "media", "latrine", "assets", "migration", "mobile",
    "merge", "encode", "status", "gap", "rank", "dropna", "write">>

InitRank ==
  \E profile \in [DOMAIN RankStates -> {0, 1, 2}] :
    LET t == [d \in DOMAIN PivotCol |->
                Call(d, IF d = "water" THEN RankWaterFile(profile) ELSE DefaultFile(d)).value]
        m == MergeAll(t["water"], [i \in 1..(Len(Datasets) - 1) |-> t[Datasets[i + 1]]])
    IN  /\ TargetCol \in m.columns
        /\ pc = "rank"
        /\ df = DefaultFile("mobile")
        /\ tbl = t
        /\ merged = [m EXCEPT !.rows = UrbanRuralGap(ComplianceFlag(EncodeSector(m.rows)))]
        /\ outfile = [writes |-> 0, rows |-> <<>>]
        /\ err = ""
        /\ console = <<>>
        /\ log = SubSeq(FullOrder, 1, 10)

NextRank == Rank \/ Drop \/ Write

SpecRank == InitRank /\ [][NextRank]_vars

(***************************************************************************)
(* Properties                                                              *)
(***************************************************************************)
Done(stage) == \E i \in DOMAIN log : log[i] = stage

Primary(r) == r.cells[TargetCol]

\* ---- load_and_pivot (SpecPivot) ----
Result == tbl[df.path]

Returned == pc = "returned" /\ Result.kind = "table"

InputBroken == ~df.exists \/ \E c \in FullColumns(df.path) : c \notin df.columns

InKey(i) == <<df.rows[i]["State"], df.rows[i]["Sector"]>>

InCat(i) == df.rows[i][PivotCol[df.path]]

InVal(i) == df.rows[i][ValueCol]

OutKey(i) == <<Result.rows[i].State, Result.rows[i].Sector>>

Least(S) == CHOOSE i \in S : \A j \in S : i <= j

\* C3 as stated: a call on a missing file, or on a file that lacks the category,
\* the value or a key column, prints a message and returns None; no exception
\* reaches the caller.
C3_ErrorsCaughtLocally ==
  (pc \in {"returned", "raised"} /\ InputBroken)
    => (pc = "returned" /\ Result = NoTable /\ console # <<>>)

\* C3 amended: a missing file or a missing column is not caught: the call raises
\* (FileNotFoundError, ValueError), prints nothing and returns nothing.  The call
\* returns None, after printing, exactly when the pivot step itself fails, which
\* it does when a category with a non-missing value is named like a key column.
C3_ValidationErrorsPropagate ==
  pc \in {"returned", "raised"} =>
    /\ (pc = "raised") <=> InputBroken
    /\ pc = "raised" =>
         /\ err = (IF df.exists THEN "ValueError" ELSE "FileNotFoundError")
         /\ console = <<>>
         /\ Result = Unset
    /\ pc = "returned" =>
         /\ err = ""
         /\ Result.kind \in {"table", "None"}
         /\ (Result = NoTable) <=> (console # <<>>)
         /\ (Result = NoTable) <=>
              \E i \in DOMAIN df.rows :
                 InCat(i) \in {<<"State">>, <<"Sector">>} /\ InVal(i) # NaN

C3_Witness ==
  /\ pc = "raised"
  /\ df.exists
  /\ PivotCol[df.path] \notin df.columns
  /\ df.rows # <<>>
  /\ err = "ValueError"

\* C4 as stated: every cell of the returned frame holds the value of the first
\* input row, in input order, with the cell's key and category, missing or not.
C4_FirstRowValue ==
  Returned =>
    \A o \in DOMAIN Result.rows : \A n \in Result.columns :
      LET hits == {i \in DOMAIN df.rows : InKey(i) = OutKey(o) /\ CleanName(InCat(i)) = n}
      IN  hits # {} => Result.rows[o].cells[n] = InVal(Least(hits))

\* C4 amended: every cell of the returned frame holds the first non-missing value
\* among the input rows with the cell's key and category, and is missing exactly
\* when no such row has a value.
C4_FirstNonMissingValue ==
  Returned =>
    \A o \in DOMAIN Result.rows : \A n \in Result.columns :
      LET hits == {i \in DOMAIN df.rows : /\ InKey(i) = OutKey(o)
                                           /\ CleanName(InCat(i)) = n
                                           /\ InVal(i) # NaN}
      IN  Result.rows[o].cells[n] = (IF hits = {} THEN NaN ELSE InVal(Least(hits)))

C4_Witness ==
  /\ Returned
  /\ \E i, j, k \in DOMAIN df.rows :
       /\ i < j /\ j < k
       /\ InKey(i) = InKey(j) /\ InKey(j) = InKey(k)
       /\ InCat(i) = InCat(j) /\ InCat(j) = InCat(k)
       /\ InVal(i) = NaN /\ InVal(j) # NaN /\ InVal(k) # NaN /\ InVal(j) # InVal(k)
       /\ \E o \in DOMAIN Result.rows :
            OutKey(o) = InKey(i) /\ Result.rows[o].cells[CleanName(InCat(i))] = InVal(j)

\* C5 as stated: the returned frame has exactly one row for every distinct
\* (State, Sector) of the input, also for a key whose values are all missing.
C5_OneRowPerInputKey ==
  Returned =>
    /\ \A a, b \in DOMAIN Result.rows : OutKey(a) = OutKey(b) => a = b
    /\ {OutKey(o) : o \in DOMAIN Result.rows} = {InKey(i) : i \in DOMAIN df.rows}

\* C5 amended: the returned frame has exactly one row for every distinct
\* (State, Sector) that has at least one input row with a non-missing value, and
\* no other row; a key whose values are all missing has no row.
C5_OneRowPerValuedKey ==
  Returned =>
    /\ \A a, b \in DOMAIN Result.rows : OutKey(a) = OutKey(b) => a = b
    /\ {OutKey(o) : o \in DOMAIN Result.rows}
         = {InKey(i) : i \in {j \in DOMAIN df.rows : InVal(j) # NaN}}

C5_Witness ==
  /\ Returned
  /\ \E i, j, k \in DOMAIN df.rows :
       /\ i # j /\ InKey(i) = InKey(j) /\ InVal(i) # NaN /\ InVal(j) # NaN
       /\ InKey(k) # InKey(i) /\ InVal(k) = NaN
       /\ Len(Result.rows) = 1
       /\ OutKey(1) = InKey(i)

\* ---- the run (Spec) ----
\* C1: once the gap column is set, every row of a State carries that State's
\* urban mean minus rural mean.
C1_GapBroadcastPerState ==
  pc = "rank" =>
    \A i \in DOMAIN merged.rows :
      merged.rows[i].Urban_Rural_Gap
        = calculate_disparity(Group(merged.rows, merged.rows[i].State))

\* C2: after the encoding step every row has Sector 0 or 1; a run whose water
\* table holds another label ends with ValueError at that step.
C2_SectorIsZeroOrOne ==
  /\ Done("encode") => \A i \in DOMAIN merged.rows : merged.rows[i].Sector \in {Some(0), Some(1)}
  /\ (pc = "status" \/ Done("encode")) =>
       \A i \in DOMAIN water.rows : water.rows[i].Sector \in {"Rural", "Urban"}

\* C6: from the join to the null-row drop the merged frame has the rows of the
\* water frame: as many, in the same order, with the same (State, Sector) keys.
C6_JoinKeepsWaterRows ==
  /\ (Done("merge") /\ ~Done("dropna")) =>
       /\ Len(merged.rows) = Len(water.rows)
       /\ \A i \in DOMAIN merged.rows : merged.rows[i].State = water.rows[i].State
  /\ pc = "encode" =>
       \A i \in DOMAIN merged.rows : merged.rows[i].Sector = water.rows[i].Sector

C6_Witness ==
  /\ pc = "encode"
  /\ Len(merged.rows) >= 2
  /\ \E i \in DOMAIN merged.rows : merged.rows[i].cells[<<"Yes">>] # NaN
  /\ \E i \in DOMAIN merged.rows : merged.rows[i].cells[<<"Yes">>] = NaN
  /\ \E j \in DOMAIN media.rows :
       \A i \in DOMAIN water.rows : water.rows[i].State # media.rows[j].State

\* C8: the rows of the written file are the rows of the water frame with a
\* non-null primary indicator, all of them and in order; none holds a null.
C8_OutputIsNonNullRows ==
  pc = "done" =>
    LET kept == SelectSeq(water.rows, LAMBDA r : Primary(r) # NaN)
    IN  /\ \A i \in DOMAIN outfile.rows : Primary(outfile.rows[i]) # NaN
        /\ Len(outfile.rows) = Len(kept)
        /\ \A i \in DOMAIN kept :
             /\ outfile.rows[i].State = kept[i].State
             /\ outfile.rows[i].Sector = EncodeLabel(kept[i].Sector)
             /\ Primary(outfile.rows[i]) = Primary(kept[i])

C8_Witness ==
  /\ pc = "done"
  /\ outfile.rows # <<>>
  /\ \E i \in DOMAIN water.rows : Primary(water.rows[i]) = NaN
  /\ \E i \in DOMAIN outfile.rows : \E n \in DOMAIN outfile.rows[i].cells :
       outfile.rows[i].cells[n] = NaN

\* C9: once the flag is set, a row is "Met" exactly when its primary indicator is
\* a number >= 90, and "Not Met" otherwise, a null included.
C9_MetIffAtLeast90 ==
  Done("status") =>
    \A i \in DOMAIN merged.rows :
      LET v == Primary(merged.rows[i])
          st == merged.rows[i].SDG_6_Status
      IN  /\ st \in {"Met", "Not Met"}
          /\ (st = "Met") <=> (v # NaN /\ v[1] >= 90)

C9_Witness ==
  /\ pc = "gap"
  /\ \E i, j, k \in DOMAIN merged.rows :
       /\ Primary(merged.rows[i]) = Some(89) /\ merged.rows[i].SDG_6_Status = "Not Met"
       /\ Primary(merged.rows[j]) = Some(90) /\ merged.rows[j].SDG_6_Status = "Met"
       /\ Primary(merged.rows[k]) = NaN /\ merged.rows[k].SDG_6_Status = "Not Met"

\* C10: the statement groups complete in the one order water, media, latrine,
\* assets, migration, mobile, join, steps 1 to 5, write; the file is written at
\* most once, only by a run in which all of them completed, and never by a run
\* that raised or in which a load returned None.
C10_StrictOrderSingleWrite ==
  /\ Len(log) <= Len(FullOrder)
  /\ log = SubSeq(FullOrder, 1, Len(log))
  /\ outfile.writes <= 1
  /\ (outfile.writes = 1) <=> (log = FullOrder)
  /\ (outfile.writes = 1) <=> (pc = "done")
  /\ outfile.writes = 1 =>
       /\ err = ""
       /\ \A d \in DOMAIN tbl : tbl[d].kind = "table"
  /\ pc = "failed" => (err # "" /\ outfile.writes = 0)

C10_Witness ==
  /\ pc = "done"
  /\ outfile.writes = 1
  /\ outfile.rows # <<>>
  /\ log = FullOrder

\* ---- the priority rank (SpecRank) ----
\* C7: once the rank column is set, every row carries the tier its State has
\* when qcut is applied to the per-State means, each State counted once.
C7_TierFromPerStateMeans ==
  pc = "dropna" =>
    LET ss    == StatesOf(merged.rows)
        means == [g \in DOMAIN ss |-> Mean(Column(Group(merged.rows, ss[g][1])))]
        cut   == qcut(means, q, Labels)
    IN  /\ cut.ok
        /\ \A i \in DOMAIN merged.rows : \A g \in DOMAIN ss :
             ss[g][1] = merged.rows[i].State
               => merged.rows[i].Priority_Rank = cut.values[g]

====
